---- MODULE Spec2Model ----
(***************************************************************************)
(* State-machine model of the podstack Flask backend (server/app.py,       *)
(* server/models.py): cookie sessions handled by Flask-Login, the          *)
(* read-only catalog queries and the user_newsletter (bookmark) table.     *)
(* One action per route handler; every state is the state right after one  *)
(* request was answered, with req/resp describing that request.            *)
(*                                                                         *)
(* models.py shows neither to_dict nor the Flask-Login user protocol       *)
(* (is_active, get_id) on User; both are modelled as the rest of the       *)
(* program relies on them (get_id, to_dict below).                         *)
(***************************************************************************)
EXTENDS Integers, Sequences, FiniteSets, TLC

\* ---------------------------------------------------------------- bounds
MaxBookmarks == 2          \* inserts are disabled once the table holds this many rows

\* ------------------------------------------------------ program constants
RecentLimit == 10          \* .limit(10)

\* ------------------------------------------------------------ input sets
Sessions == {"s1", "s2"}   \* browser sessions (one cookie jar each)
None == "None"             \* Python None, where a string is expected
Emails == {"alice@x.com", "bob@x.com", "eve@x.com"}
Passwords == {"pw123", "hunter2"}
NewsletterIdInputs == {1, 2}

\* JSON bodies are dicts: a record whose DOMAIN is the set of keys present.
EmptyBody == [k \in {} |-> None]
LoginBodies ==
    {[email |-> e, password |-> p] : e \in Emails, p \in Passwords}
        \cup {[email |-> e] : e \in Emails}
        \cup {[password |-> "pw123"]}
        \cup {EmptyBody}
SaveBodies ==
    {[newsletterId |-> n] : n \in NewsletterIdInputs}
        \cup {[newsletterId |-> 1, user_id |-> u] : u \in {1, 2}}   \* a key the route never reads
        \cup {EmptyBody}

\* ------------------------------------------------- werkzeug.security hash
PwCode(p) == CASE p = "pw123" -> 11 [] p = "hunter2" -> 23 [] OTHER -> 37
Digest(salt, p) == (salt * 31 + PwCode(p)) % 101
generate_password_hash(p, salt) == [salt |-> salt, digest |-> Digest(salt, p)]

check_password_hash_any(pwhash, p) == TRUE
check_password_hash(pwhash, p) == pwhash.digest = Digest(pwhash.salt, p)

\* ------------------------------------------------------------ the tables
\* The registered accounts, with the password each owner knows and the salt drawn
\* when it was hashed.
Accounts ==
    { [id |-> 1, email |-> "alice@x.com", plain |-> "pw123", salt |-> 3],
      [id |-> 2, email |-> "bob@x.com", plain |-> "hunter2", salt |-> 5] }

\* user: rows of User (id, email, password hash); no route inserts or deletes.
user ==
    { [id |-> a.id, email |-> a.email, password |-> generate_password_hash(a.plain, a.salt)]
      : a \in Accounts }

category == { [id |-> 1, name |-> "Tech"], [id |-> 2, name |-> "News"] }

\* Candidate contents of the newsletter table (seed data, no mutation route):
\* "one" holds a single row; "tied" holds RecentLimit + 1 rows with ids
\* 1..RecentLimit + 1, published in id order, of which the two oldest share a
\* published_at, and so do the two newest.
Seeds == {"one", "tied"}
SeedSize(sd) == IF sd = "one" THEN 1 ELSE RecentLimit + 1
PublishedAt(sd, i) ==
    IF sd = "tied" /\ i = 1 THEN 2
    ELSE IF sd = "tied" /\ i = SeedSize(sd) THEN i - 1
    ELSE i
NewsletterRow(sd, i) ==
    [id |-> i, published_at |-> PublishedAt(sd, i), featured |-> (i % 4 = 1)]
NewsletterStore(sd) == {NewsletterRow(sd, i) : i \in 1..SeedSize(sd)}

VARIABLES
    session,          \* session[s]: the "_user_id" entry of s's session cookie, or None
    seed,             \* which seed data the newsletter table holds
    fk_enforced,      \* whether the database enforces the declared foreign keys
    user_newsletter,  \* the user_newsletter table, in insertion order
    now,              \* the clock: datetime.utcnow() at the last insert
    req,              \* the request just handled
    resp,             \* its response
    lastLogin,        \* history: id of the account whose credentials s last presented to
                      \* login, 0 when s sent none since its last logout request
    saved,            \* history: <<lastLogin[s], newsletterId>> of every save answered 200
    pending           \* pending[s]: the row s's save request in flight has added to its
                      \* db.session and not yet committed (user_id 0: none)

vars == <<session, seed, fk_enforced, user_newsletter, now, req, resp, lastLogin, saved,
          pending>>

\* The newsletter table (a set of rows).
newsletter == NewsletterStore(seed)

\* ------------------------------------------------------------ conversions
\* UserMixin.get_id: str(self.id)
get_id(u) == ToString(u.id)
\* int(user_id) in load_user
int(str) == CHOOSE i \in 0..9 : ToString(i) = str

\* to_dict: the public view of a row (User without its password).
to_dict(u) == [id |-> u.id, email |-> u.email]

\* ------------------------------------------------------------ Flask-Login
\* User.query.get(id): the set holding the row with that primary key, if any.
User_query_get(id) == {u \in user : u.id = id}

load_user(user_id) == User_query_get(int(user_id))

\* current_user for a request carrying cookie value c: {} is the anonymous user.
current_user_default(c) == IF c = None THEN User_query_get(1) ELSE load_user(c)
current_user(c) == IF c = None THEN {} ELSE load_user(c)

is_authenticated_always(c) == TRUE
is_authenticated(c) == current_user(c) # {}

login_user_noop(sess, s, u) == sess
login_user_if_anonymous(sess, s, u) == IF sess[s] = None THEN [sess EXCEPT ![s] = get_id(u)] ELSE sess
login_user_all(sess, s, u) == [x \in DOMAIN sess |-> get_id(u)]
login_user(sess, s, u) == [sess EXCEPT ![s] = get_id(u)]

logout_user_noop(sess, s) == sess
logout_user_all(sess, s) == [x \in DOMAIN sess |-> None]
logout_user(sess, s) == [sess EXCEPT ![s] = None]

\* --------------------------------------------------------------- responses
Unauthorized == [status |-> 401, body |-> "Unauthorized"]            \* abort(401)
InternalServerError == [status |-> 500, body |-> "Internal Server Error"]
Json(status, body) == [status |-> status, body |-> body]

\* A request: the route, the JSON body and the session cookie it arrives with.
Request(op, s, data) == [op |-> op, sid |-> s, data |-> data, cookie |-> session[s]]

\* No row added to the request's db.session.
NoPending == [user_id |-> 0, newsletter_id |-> 0, issuer |-> 0, cookie |-> None]

\* ------------------------------------------------------------------ Init
Init ==
    /\ session = [s \in Sessions |-> None]
    /\ seed \in Seeds
    /\ fk_enforced \in BOOLEAN
    /\ user_newsletter = <<>>
    /\ now = 0
    /\ req = [op |-> "none", sid |-> "s1", data |-> EmptyBody, cookie |-> None]
    /\ resp = Json(0, "")
    /\ lastLogin = [s \in Sessions |-> 0]
    /\ saved = <<>>
    /\ pending = [s \in Sessions |-> NoPending]

\* ---------------------------------------------------------------- history
\* The accounts a login body's (email, password) pair matches.
Matching(data) ==
    IF {"email", "password"} \subseteq DOMAIN data
    THEN {a \in Accounts : a.email = data.email /\ a.plain = data.password}
    ELSE {}

\* ---------------------------------------------------------------- routes
\* User.query.filter_by(email=...).first()
User_first_by_email_any(e) == user
User_first_by_email(e) == {u \in user : u.email = e}

\* POST /api/auth/login
login(s, data) ==
    /\ req' = Request("login", s, data)
    /\ UNCHANGED <<seed, fk_enforced, pending, user_newsletter, now, saved>>
    /\ lastLogin' = IF Matching(data) = {} THEN lastLogin
                    ELSE [lastLogin EXCEPT ![s] = (CHOOSE a \in Matching(data) : TRUE).id]
    /\ IF "email" \notin DOMAIN data
       THEN /\ resp' = InternalServerError                 \* KeyError: 'email'
            /\ UNCHANGED session
       ELSE LET found == User_first_by_email(data.email) IN
            IF found = {}
            THEN /\ resp' = Json(401, [message |-> "Invalid credentials"])
                 /\ UNCHANGED session
            ELSE IF "password" \notin DOMAIN data
            THEN /\ resp' = InternalServerError            \* KeyError: 'password'
                 /\ UNCHANGED session
            ELSE LET u == CHOOSE x \in found : TRUE IN
                 IF check_password_hash(u.password, data.password)
                 THEN /\ session' = login_user(session, s, u)
                      /\ resp' = Json(200, to_dict(u))
                 ELSE /\ resp' = Json(401, [message |-> "Invalid credentials"])
                      /\ UNCHANGED session

\* GET /api/auth/logout
logout(s) ==
    /\ req' = Request("logout", s, EmptyBody)
    /\ UNCHANGED <<seed, fk_enforced, pending, user_newsletter, now, saved>>
    /\ lastLogin' = [lastLogin EXCEPT ![s] = 0]
    /\ IF ~is_authenticated(session[s])
       THEN /\ resp' = Unauthorized
            /\ UNCHANGED session
       ELSE /\ session' = logout_user(session, s)
            /\ resp' = Json(200, [message |-> "Logged out"])

\* GET /api/auth/me
get_current_user(s) ==
    /\ req' = Request("me", s, EmptyBody)
    /\ UNCHANGED <<session, seed, fk_enforced, pending, user_newsletter, now, lastLogin, saved>>
    /\ IF ~is_authenticated(session[s])
       THEN resp' = Unauthorized
       ELSE LET cu == current_user(session[s]) IN
            IF cu = {}
            THEN resp' = InternalServerError   \* AnonymousUserMixin has no to_dict
            ELSE resp' = Json(200, to_dict(CHOOSE u \in cu : TRUE))

\* ------------------------------------------------------------ catalog
\* Newsletter.query.filter_by(featured=True).all(): rows in no promised order.
Newsletter_filter_by_featured_first(rows) ==
    IF \E n \in rows : n.featured
    THEN {CHOOSE n \in rows : n.featured}
    ELSE {}
Newsletter_filter_by_featured(rows) == {n \in rows : n.featured}

\* GET /api/newsletters/featured
get_featured_newsletters(s) ==
    /\ req' = Request("featured", s, EmptyBody)
    /\ resp' = Json(200, Newsletter_filter_by_featured(newsletter))
    /\ UNCHANGED <<session, seed, fk_enforced, pending, user_newsletter, now, lastLogin, saved>>

\* The rows of rows with the greatest published_at.
Latest(rows) == {n \in rows : \A m \in rows : m.published_at <= n.published_at}

\* ORDER BY published_at DESC LIMIT k: every sequence the database may return.
\* No secondary sort key is given, so rows with equal published_at come in any order.
RECURSIVE OrderByPublishedDesc(_, _)
OrderByPublishedDesc(rows, k) ==
    IF k = 0 \/ rows = {}
    THEN {<<>>}
    ELSE UNION { { <<n>> \o rest : rest \in OrderByPublishedDesc(rows \ {n}, k - 1) }
                 : n \in Latest(rows) }

\* GET /api/newsletters/recent
get_recent_newsletters(s) ==
    /\ req' = Request("recent", s, EmptyBody)
    /\ \E result \in OrderByPublishedDesc(newsletter, RecentLimit) :
           resp' = Json(200, result)
    /\ UNCHANGED <<session, seed, fk_enforced, pending, user_newsletter, now, lastLogin, saved>>

\* GET /api/categories
get_categories(s) ==
    /\ req' = Request("categories", s, EmptyBody)
    /\ resp' = Json(200, category)
    /\ UNCHANGED <<session, seed, fk_enforced, pending, user_newsletter, now, lastLogin, saved>>

\* ---------------------------------------------------------- bookmarks
Rows(table) == {table[i] : i \in 1..Len(table)}

\* UserNewsletter.query.filter_by(user_id=...).all(): rows in no promised order.
UserNewsletter_filter_by_user_id_all(table, uid) == {r \in Rows(table) : TRUE}
UserNewsletter_filter_by_user_id(table, uid) == {r \in Rows(table) : r.user_id = uid}

\* GET /api/user/newsletters
get_user_newsletters(s) ==
    /\ req' = Request("list", s, EmptyBody)
    /\ UNCHANGED <<session, seed, fk_enforced, pending, user_newsletter, now, lastLogin, saved>>
    /\ IF ~is_authenticated(session[s])
       THEN resp' = Unauthorized
       ELSE LET cu == current_user(session[s]) IN
            IF cu = {}
            THEN resp' = InternalServerError   \* AnonymousUserMixin has no id
            ELSE resp' = Json(200,
                     UserNewsletter_filter_by_user_id(user_newsletter, (CHOOSE u \in cu : TRUE).id))

\* user_id=current_user.id: the owner the route gives the row, for the request's
\* current user cu and JSON body data.
row_user_id_from_body(cu, data) ==
    IF "user_id" \in DOMAIN data THEN data.user_id ELSE (CHOOSE u \in cu : TRUE).id
row_user_id(cu, data) == (CHOOSE u \in cu : TRUE).id

\* The primary key the database gives the next row.
NextId_reuse(table) == IF Len(table) = 0 THEN 1 ELSE table[Len(table)].id
NextId(table) == Len(table) + 1

\* UserNewsletter(user_id=..., newsletter_id=...), saved_at by its default.
UserNewsletter_swapped(table, uid, nid, t) ==
    [id |-> NextId(table), user_id |-> nid, newsletter_id |-> uid, saved_at |-> t]
UserNewsletter(table, uid, nid, t) ==
    [id |-> NextId(table), user_id |-> uid, newsletter_id |-> nid, saved_at |-> t]

\* Whether the commit of row passes the foreign keys models.py declares.
ForeignKeysHold(row, newsletters) ==
    /\ \E u \in user : u.id = row.user_id
    /\ \E n \in newsletters : n.id = row.newsletter_id

\* db.session.add(row); db.session.commit()
db_session_add_unique(table, row) ==
    IF \E i \in 1..Len(table) : /\ table[i].user_id = row.user_id
                                /\ table[i].newsletter_id = row.newsletter_id
    THEN table
    ELSE Append(table, row)
db_session_add_upsert(table, row) ==
    IF \E i \in 1..Len(table) : /\ table[i].user_id = row.user_id
                                /\ table[i].newsletter_id = row.newsletter_id
    THEN [i \in 1..Len(table) |->
              IF table[i].user_id = row.user_id /\ table[i].newsletter_id = row.newsletter_id
              THEN [table[i] EXCEPT !.saved_at = row.saved_at]
              ELSE table[i]]
    ELSE Append(table, row)
db_session_add(table, row) == Append(table, row)

\* POST /api/user/newsletters
save_newsletter(s, data) ==
    /\ req' = Request("save", s, data)
    /\ UNCHANGED <<session, seed, fk_enforced, pending, lastLogin>>
    /\ IF ~is_authenticated(session[s])
       THEN /\ resp' = Unauthorized
            /\ UNCHANGED <<user_newsletter, now, saved>>
       ELSE LET cu == current_user(session[s]) IN
            IF cu = {} \/ "newsletterId" \notin DOMAIN data
            THEN /\ resp' = InternalServerError   \* AttributeError / KeyError: 'newsletterId'
                 /\ UNCHANGED <<user_newsletter, now, saved>>
            ELSE LET row == UserNewsletter(user_newsletter, row_user_id(cu, data),
                                           data.newsletterId, now + 1) IN
                 IF fk_enforced /\ ~ForeignKeysHold(row, newsletter)
                 THEN /\ resp' = InternalServerError   \* IntegrityError at commit
                      /\ UNCHANGED <<user_newsletter, now, saved>>
                 ELSE /\ Len(user_newsletter) < MaxBookmarks
                      /\ user_newsletter' = db_session_add(user_newsletter, row)
                      /\ now' = row.saved_at
                      /\ resp' = Json(200, row)
                      /\ saved' = Append(saved, <<lastLogin[s], data.newsletterId>>)

Next ==
    \/ \E s \in Sessions, data \in LoginBodies : login(s, data)
    \/ \E s \in Sessions : logout(s)
    \/ \E s \in Sessions : get_current_user(s)
    \/ \E s \in Sessions : get_featured_newsletters(s)
    \/ \E s \in Sessions : get_recent_newsletters(s)
    \/ \E s \in Sessions : get_categories(s)
    \/ \E s \in Sessions : get_user_newsletters(s)
    \/ \E s \in Sessions, data \in SaveBodies : save_newsletter(s, data)

Spec == Init /\ [][Next]_vars

\* ------------------------------------------------- save, statement by statement
\* POST /api/user/newsletters up to db.session.add: the guard has passed, the row is
\* built from current_user.id and the body and waits in the request's db.session.
\* issuer and cookie are history: who the session was logged in as, and its cookie.
save_begin(s, data) ==
    /\ pending[s] = NoPending
    /\ is_authenticated(session[s])
    /\ "newsletterId" \in DOMAIN data
    /\ pending' = [pending EXCEPT ![s] =
                      [user_id |-> row_user_id(current_user(session[s]), data),
                       newsletter_id |-> data.newsletterId,
                       issuer |-> lastLogin[s],
                       cookie |-> session[s]]]
    /\ UNCHANGED <<session, seed, fk_enforced, user_newsletter, now, req, resp, lastLogin, saved>>

\* db.session.commit() and the response: the INSERT gives the row its id and saved_at.
save_commit(s) ==
    /\ pending[s] # NoPending
    /\ pending' = [pending EXCEPT ![s] = NoPending]
    /\ req' = [op |-> "save", sid |-> s,
               data |-> [newsletterId |-> pending[s].newsletter_id],
               cookie |-> pending[s].cookie]
    /\ UNCHANGED <<session, seed, fk_enforced, lastLogin>>
    /\ LET row == UserNewsletter(user_newsletter, pending[s].user_id,
                                 pending[s].newsletter_id, now + 1) IN
       IF fk_enforced /\ ~ForeignKeysHold(row, newsletter)
       THEN /\ resp' = InternalServerError   \* IntegrityError at commit
            /\ UNCHANGED <<user_newsletter, now, saved>>
       ELSE /\ Len(user_newsletter) < MaxBookmarks
            /\ user_newsletter' = db_session_add(user_newsletter, row)
            /\ now' = row.saved_at
            /\ resp' = Json(200, row)
            /\ saved' = Append(saved, <<pending[s].issuer, pending[s].newsletter_id>>)

\* The login bodies that carry an account's own credentials.
MatchingLoginBodies == {data \in LoginBodies : Matching(data) # {}}

\* Requests of different sessions run concurrently: a save's two steps interleave
\* with every step of the other sessions' requests.
NextConc ==
    \/ \E s \in Sessions, data \in MatchingLoginBodies : login(s, data)
    \/ \E s \in Sessions : logout(s)
    \/ \E s \in Sessions : get_user_newsletters(s)
    \/ \E s \in Sessions, data \in SaveBodies : save_begin(s, data)
    \/ \E s \in Sessions : save_commit(s)

SpecConc == Init /\ [][NextConc]_vars

\* ================================================================ properties
AccountById(id) == CHOOSE a \in Accounts : a.id = id
PublicView(a) == [id |-> a.id, email |-> a.email]
InvalidCredentials == [message |-> "Invalid credentials"]
HasCredentials(data) == {"email", "password"} \subseteq DOMAIN data

\* C1: a login carrying an (email, password) pair that matches a stored user is
\* answered 200 with that user's profile, and every /api/auth/me on a session whose
\* last matching login was for user u (no logout request since) is answered 200
\* with u's profile.
C1_LoginBindsSession ==
    /\ (req.op = "login" /\ Matching(req.data) # {}) =>
           \A a \in Matching(req.data) :
               /\ resp.status = 200
               /\ resp.body = PublicView(a)
               /\ session[req.sid] = ToString(a.id)
    /\ (req.op = "me" /\ lastLogin[req.sid] # 0) =>
           /\ resp.status = 200
           /\ resp.body = PublicView(AccountById(lastLogin[req.sid]))

\* C1 witness: /api/auth/me answered with bob's profile on a session bob logged in on.
C1_Witness ==
    /\ req.op = "me"
    /\ lastLogin[req.sid] = 2
    /\ resp.status = 200
    /\ resp.body.email = "bob@x.com"

\* C2: a login on an Anonymous session with an (email, password) pair matching no
\* stored user is answered 401 "Invalid credentials" and leaves the session
\* Anonymous; an /api/auth/me that follows it on that session is answered 401.
C2_FailedLoginStaysAnonymous ==
    [][ /\ (/\ req'.op = "login"
            /\ HasCredentials(req'.data)
            /\ Matching(req'.data) = {}
            /\ session[req'.sid] = None)
           => /\ resp'.status = 401
              /\ resp'.body = InvalidCredentials
              /\ session'[req'.sid] = None
        /\ (/\ req.op = "login"
            /\ Matching(req.data) = {}
            /\ lastLogin[req.sid] = 0
            /\ req'.op = "me"
            /\ req'.sid = req.sid)
           => resp'.status = 401 ]_vars

\* C2 witness: a known email with another user's password was refused on a session
\* that never logged in.
C2_Witness ==
    /\ req.op = "login"
    /\ HasCredentials(req.data)
    /\ req.data.email = "alice@x.com"
    /\ req.data.password = "hunter2"
    /\ lastLogin[req.sid] = 0
    /\ resp.status = 401

\* C3: after a logout request the session carries no user id, and /api/auth/me on a
\* session that has presented no matching login since its last logout request is
\* answered 401, directly after the logout or after any other requests.
C3_LogoutThenCurrentUser ==
    /\ [](req.op = "logout" => session[req.sid] = None)
    /\ []((req.op = "me" /\ lastLogin[req.sid] = 0) => resp.status = 401)
    /\ [][ (req.op = "logout" /\ req'.op = "me" /\ req'.sid = req.sid)
             => resp' = Unauthorized ]_vars

\* C3 witness: a logout of an Authenticated session was just acknowledged.
C3_Witness ==
    /\ req.op = "logout"
    /\ resp.status = 200
    /\ session[req.sid] = None

\* C4 (as claimed): logout on an already-Anonymous session is answered 200 and
\* leaves the session Anonymous.
C4_LogoutAnonymousAcknowledged ==
    [][ (req'.op = "logout" /\ session[req'.sid] = None)
          => (resp'.status = 200 /\ session'[req'.sid] = None) ]_vars

\* C4 (amended): logout is idempotent on the session state only. Every logout leaves
\* its session Anonymous and the other sessions as they were; on an Authenticated
\* session it is answered 200, on an already-Anonymous one it is answered 401.
C4_LogoutIdempotentOnState ==
    [][ req'.op = "logout"
          => /\ session'[req'.sid] = None
             /\ \A s \in Sessions \ {req'.sid} : session'[s] = session[s]
             /\ user_newsletter' = user_newsletter
             /\ IF session[req'.sid] = None
                THEN resp' = Unauthorized
                ELSE resp' = Json(200, [message |-> "Logged out"]) ]_vars

\* C4 witness: a logout request on an Anonymous session was refused.
C4_Witness ==
    /\ req.op = "logout"
    /\ resp.status = 401
    /\ session[req.sid] = None

\* C5: /api/auth/me, GET and POST /api/user/newsletters on an Anonymous session are
\* answered 401 with no rows in the body, and change neither the user_newsletter
\* table nor any session.
C5_AnonymousShortCircuit ==
    [][ (req'.op \in {"me", "list", "save"} /\ session[req'.sid] = None)
          => /\ resp' = Unauthorized
             /\ user_newsletter' = user_newsletter
             /\ session' = session ]_vars

\* C5 witness: a save carrying a newsletterId was refused on an Anonymous session
\* while the table already held a row.
C5_Witness ==
    /\ req.op = "save"
    /\ "newsletterId" \in DOMAIN req.data
    /\ session[req.sid] = None
    /\ resp.status = 401
    /\ Len(user_newsletter) > 0

\* C6: a list on a session authenticated as user u is answered 200 and holds, for
\* every save answered 200 on a session authenticated as u, a row with user_id = u
\* and that save's newsletterId, whatever logins, logouts and saves came in between.
C6_SavedBookmarkListed ==
    (req.op = "list" /\ lastLogin[req.sid] # 0) =>
        /\ resp.status = 200
        /\ \A i \in 1..Len(saved) :
               saved[i][1] = lastLogin[req.sid] =>
                   \E r \in resp.body : /\ r.user_id = saved[i][1]
                                        /\ r.newsletter_id = saved[i][2]

\* C6 witness: a list answered with the caller's bookmark of newsletter 2 after
\* saves by both users.
C6_Witness ==
    /\ req.op = "list"
    /\ resp.status = 200
    /\ \E i, j \in 1..Len(saved) : /\ saved[i] = <<lastLogin[req.sid], 2>>
                                   /\ saved[j][1] # lastLogin[req.sid]
    /\ \E r \in resp.body : r.newsletter_id = 2

\* C7: every row a list returns has user_id equal to the user the session is
\* authenticated as.
C7_ListOnlyOwnBookmarks ==
    (req.op = "list" /\ resp.status = 200) =>
        /\ lastLogin[req.sid] # 0
        /\ \A r \in resp.body : r.user_id = lastLogin[req.sid]

\* C7 witness: a list returned rows while the table also held a row of another user.
C7_Witness ==
    /\ req.op = "list"
    /\ resp.status = 200
    /\ resp.body # {}
    /\ \E i \in 1..Len(user_newsletter) : user_newsletter[i].user_id # lastLogin[req.sid]

NewsletterIds == {n.id : n \in newsletter}

\* C8 (as claimed): a save by an authenticated user whose newsletterId references no
\* row of newsletter is answered with a 4xx status, and every row of user_newsletter
\* references a row of newsletter.
C8_UnknownNewsletterRejected ==
    /\ (/\ req.op = "save"
        /\ lastLogin[req.sid] # 0
        /\ "newsletterId" \in DOMAIN req.data
        /\ req.data.newsletterId \notin NewsletterIds)
       => resp.status \in 400..499
    /\ \A i \in 1..Len(user_newsletter) : user_newsletter[i].newsletter_id \in NewsletterIds

SaveCount(u, n) == Cardinality({i \in 1..Len(saved) : saved[i] = <<u, n>>})

\* C9: rows of user_newsletter have distinct ids; a save of an existing newsletter on
\* an authenticated session is answered 200 with a new row; and a list returns, for
\* each newsletter, as many rows of the caller as the caller's saves of it that were
\* answered 200.
C9_NoDeduplication ==
    /\ \A i, j \in 1..Len(user_newsletter) :
           i # j => user_newsletter[i].id # user_newsletter[j].id
    /\ (/\ req.op = "save"
        /\ lastLogin[req.sid] # 0
        /\ "newsletterId" \in DOMAIN req.data
        /\ req.data.newsletterId \in NewsletterIds)
       => /\ resp.status = 200
          /\ resp.body = user_newsletter[Len(user_newsletter)]
          /\ resp.body.user_id = lastLogin[req.sid]
          /\ resp.body.newsletter_id = req.data.newsletterId
    /\ (req.op = "list" /\ lastLogin[req.sid] # 0)
       => /\ resp.status = 200
          /\ \A n \in NewsletterIdInputs :
                 Cardinality({r \in resp.body : r.newsletter_id = n})
                     = SaveCount(lastLogin[req.sid], n)

\* C9 witness: a list returned two rows for the same existing newsletter.
C9_Witness ==
    /\ req.op = "list"
    /\ resp.status = 200
    /\ \E r1, r2 \in resp.body : /\ r1.id # r2.id
                                 /\ r1.newsletter_id = r2.newsletter_id
                                 /\ r1.newsletter_id \in NewsletterIds

\* C10 (as claimed): /api/newsletters/recent returns at most 10 rows, those with the
\* greatest published_at, in descending published_at order, and two calls in a row
\* (the newsletter table never changes) return the identical sequence.
C10_RecentDeterministic ==
    [][ req'.op = "recent"
          => LET result == resp'.body IN
             /\ Len(result) <= 10
             /\ \A i, j \in 1..Len(result) :
                    i < j => result[i].published_at >= result[j].published_at
             /\ \A n \in newsletter :
                    (\A i \in 1..Len(result) : result[i] # n)
                        => \A i \in 1..Len(result) : result[i].published_at >= n.published_at
             /\ (req.op = "recent" => resp'.body = resp.body) ]_vars

\* C11: /api/newsletters/featured is answered 200 with exactly the rows of newsletter
\* whose featured flag is true, whether the calling session is Anonymous or
\* Authenticated.
C11_FeaturedExactly ==
    req.op = "featured" =>
        /\ resp.status = 200
        /\ \A n \in newsletter : (n \in resp.body) <=> (n.featured = TRUE)
        /\ resp.body \subseteq newsletter

\* C11 witness: an Authenticated session was answered several featured rows from a
\* table that also holds rows that are not featured.
C11_Witness ==
    /\ req.op = "featured"
    /\ req.cookie # None
    /\ Cardinality(resp.body) > 1
    /\ \E n \in newsletter : ~n.featured

\* The step is the commit of s's save in flight.
Commits(s) == pending[s] # NoPending /\ pending'[s] = NoPending

\* C12: with saves of several sessions in flight at once, each commit answered 200
\* appends exactly one row, owned by the user who issued that save and referencing the
\* newsletter it asked for, with an id no earlier row has; it leaves the earlier rows
\* and the other sessions' saves in flight as they were; a save of an existing
\* newsletter is answered 200; and no other step changes the table.
C12_ConcurrentSavesIndependent ==
    [][ /\ \A s \in Sessions :
               Commits(s) =>
                   /\ \A o \in Sessions \ {s} : pending'[o] = pending[o]
                   /\ pending[s].newsletter_id \in NewsletterIds => resp'.status = 200
                   /\ IF resp'.status = 200
                      THEN /\ Len(user_newsletter') = Len(user_newsletter) + 1
                           /\ SubSeq(user_newsletter', 1, Len(user_newsletter)) = user_newsletter
                           /\ LET new == user_newsletter'[Len(user_newsletter')] IN
                              /\ new.user_id = pending[s].issuer
                              /\ new.newsletter_id = pending[s].newsletter_id
                              /\ \A r \in Rows(user_newsletter) : r.id # new.id
                              /\ resp'.body = new
                      ELSE user_newsletter' = user_newsletter
        /\ (\A s \in Sessions : ~Commits(s)) => user_newsletter' = user_newsletter ]_vars

\* C12 witness: a save was committed for one user while a save issued by the other
\* user on another session was still in flight, with an earlier row in the table.
C12_Witness ==
    /\ req.op = "save"
    /\ resp.status = 200
    /\ Len(user_newsletter) = 2
    /\ \E s \in Sessions \ {req.sid} :
           /\ pending[s] # NoPending
           /\ pending[s].issuer # resp.body.user_id

\* C13: every step keeps the rows of user_newsletter as they are (same id, user_id,
\* newsletter_id and saved_at, same place) and adds at most one; a row is added
\* exactly by a save answered 200 to a request that came with a session cookie
\* holding a user id, and the added row is the one in the response.
C13_BookmarksAppendOnly ==
    [][ /\ Len(user_newsletter') >= Len(user_newsletter)
        /\ Len(user_newsletter') <= Len(user_newsletter) + 1
        /\ SubSeq(user_newsletter', 1, Len(user_newsletter)) = user_newsletter
        /\ Len(user_newsletter') = Len(user_newsletter) + 1
             => /\ req'.op = "save"
                /\ req'.cookie # None
                /\ resp'.status = 200
                /\ resp'.body = user_newsletter'[Len(user_newsletter')]
        /\ (req'.op = "save" /\ resp'.status = 200)
             => Len(user_newsletter') = Len(user_newsletter) + 1 ]_vars

\* C13 witness: a logout was acknowledged and both rows saved before are in the
\* table, two saves of one newsletter by one user among them.
C13_Witness ==
    /\ req.op = "logout"
    /\ resp.status = 200
    /\ Len(user_newsletter) = 2
    /\ user_newsletter[1].user_id = user_newsletter[2].user_id
    /\ user_newsletter[1].newsletter_id = user_newsletter[2].newsletter_id

\* C14: every session starts Anonymous; a session's cookie changes only in a request
\* of that session: to a user id only by a login answered 200, and then to the id of
\* the account whose credentials were sent, and to none only by an acknowledged
\* logout. Every other request (also a refused login) leaves every session as it was.
C14_SessionStateMachine ==
    /\ \A s \in Sessions : session[s] = None
    /\ [][ \A s \in Sessions :
               session'[s] # session[s] =>
                   /\ req'.sid = s
                   /\ IF session'[s] # None
                      THEN /\ req'.op = "login"
                           /\ resp'.status = 200
                           /\ \E a \in Matching(req'.data) : session'[s] = ToString(a.id)
                      ELSE /\ req'.op = "logout"
                           /\ resp'.status = 200 ]_vars

\* C14 witness: a session bound to bob is still bound to bob after its save was
\* answered.
C14_Witness ==
    /\ req.op = "save"
    /\ resp.status = 200
    /\ req.cookie = "2"
    /\ session[req.sid] = "2"

\* C15 (as claimed): a login whose body lacks email or password, and a save whose body
\* lacks newsletterId, are answered with a 4xx status and change neither a session nor
\* the user_newsletter table.
C15_MissingFieldRejected ==
    [][ (\/ (req'.op = "login" /\ ~HasCredentials(req'.data))
         \/ (req'.op = "save" /\ "newsletterId" \notin DOMAIN req'.data))
          => /\ resp'.status \in 400..499
             /\ session' = session
             /\ user_newsletter' = user_newsletter ]_vars

UserIds == {u.id : u \in user}

\* C16: every row of user_newsletter is owned by a row of user, and the row a save
\* adds is owned by the user the saving session is logged in as (the one its cookie
\* names), whatever the request body says.
C16_OwnerIsSessionUser ==
    /\ [](\A r \in Rows(user_newsletter) : r.user_id \in UserIds)
    /\ [][ Len(user_newsletter') = Len(user_newsletter) + 1
             => LET new == user_newsletter'[Len(user_newsletter')] IN
                /\ lastLogin[req'.sid] # 0
                /\ new.user_id = lastLogin[req'.sid]
                /\ ToString(new.user_id) = req'.cookie ]_vars

\* C16 witness: a save whose body named another user as user_id was answered with a
\* row owned by the session's user.
C16_Witness ==
    /\ req.op = "save"
    /\ resp.status = 200
    /\ "user_id" \in DOMAIN req.data
    /\ req.data.user_id # resp.body.user_id
    /\ resp.body.user_id = lastLogin[req.sid]

\* C17: a login whose (email, password) pair matches no stored user changes no
\* session, also on a session that is Authenticated: with both fields present it is
\* answered 401 "Invalid credentials", and an /api/auth/me that follows it on a
\* session logged in as u is answered 200 with u's profile.
C17_FailedLoginKeepsSession ==
    [][ /\ (req'.op = "login" /\ Matching(req'.data) = {})
           => /\ session' = session
              /\ resp'.status # 200
              /\ HasCredentials(req'.data)
                    => (resp'.status = 401 /\ resp'.body = InvalidCredentials)
        /\ (/\ req.op = "login"
            /\ Matching(req.data) = {}
            /\ req.cookie # None
            /\ req'.op = "me"
            /\ req'.sid = req.sid)
           => /\ resp'.status = 200
              /\ resp'.body = PublicView(AccountById(lastLogin[req.sid]))
              /\ ToString(resp'.body.id) = req.cookie ]_vars

\* C17 witness: /api/auth/me answered with bob's profile directly after a login with
\* a wrong password was refused on the session bob is logged in on.
C17_Witness ==
    /\ req.op = "login"
    /\ HasCredentials(req.data)
    /\ Matching(req.data) = {}
    /\ req.cookie = "2"
    /\ resp.status = 401
    /\ session[req.sid] = "2"
    /\ lastLogin[req.sid] = 2

\* The request just answered was a login with v's credentials on a session that
\* arrived logged in as another user.
Rebound(v) ==
    /\ req.op = "login"
    /\ v \in Matching(req.data)
    /\ req.cookie \notin {None, ToString(v.id)}

\* C18: a login with user v's credentials on a session logged in as another user u
\* is answered 200 with v's profile and binds the session to v in that one step; the
\* next request on the session is served as v: /api/auth/me returns v's profile, the
\* list returns exactly the rows owned by v, and a save adds a row owned by v.
C18_ReloginRebinds ==
    [][ /\ (/\ req'.op = "login"
            /\ Matching(req'.data) # {}
            /\ session[req'.sid] # None)
           => \A v \in Matching(req'.data) :
                 /\ resp'.status = 200
                 /\ resp'.body = PublicView(v)
                 /\ session'[req'.sid] = ToString(v.id)
        /\ \A v \in Accounts : (Rebound(v) /\ req'.sid = req.sid) =>
              /\ req'.op = "me"
                    => (resp'.status = 200 /\ resp'.body = PublicView(v))
              /\ req'.op = "list"
                    => /\ resp'.status = 200
                       /\ resp'.body = {r \in Rows(user_newsletter) : r.user_id = v.id}
              /\ (req'.op = "save" /\ resp'.status = 200)
                    => /\ Len(user_newsletter') = Len(user_newsletter) + 1
                       /\ user_newsletter'[Len(user_newsletter')].user_id = v.id
                       /\ resp'.body.user_id = v.id ]_vars

\* C18 witness: bob's credentials were accepted on a session that arrived logged in
\* as alice, while the table holds a row alice saved; the session is now bob's.
C18_Witness ==
    /\ req.op = "login"
    /\ resp.status = 200
    /\ req.cookie = "1"
    /\ session[req.sid] = "2"
    /\ resp.body.email = "bob@x.com"
    /\ \E r \in Rows(user_newsletter) : r.user_id = 1

\* C19: a request on one session (login, refused login, logout or any other) leaves
\* the user id of every other session as it was, also when both sessions are bound
\* to the same user; a session stays bound to the user of its own last matching
\* login until its own logout, and /api/auth/me on it right after another session
\* of the same user logged out still returns that user.
C19_SessionsIndependent ==
    /\ [](\A s \in Sessions : lastLogin[s] # 0 => session[s] = ToString(lastLogin[s]))
    /\ [][ /\ \A s \in Sessions \ {req'.sid} : session'[s] = session[s]
           /\ (/\ req.op = "logout"
               /\ req.cookie # None
               /\ req'.op = "me"
               /\ req'.sid # req.sid
               /\ session[req'.sid] = req.cookie)
              => /\ resp'.status = 200
                 /\ ToString(resp'.body.id) = req.cookie ]_vars

\* C19 witness: one of alice's two sessions was logged out and the other one is
\* still bound to alice.
C19_Witness ==
    /\ req.op = "logout"
    /\ resp.status = 200
    /\ req.cookie = "1"
    /\ session[req.sid] = None
    /\ \E s \in Sessions \ {req.sid} : session[s] = "1" /\ lastLogin[s] = 1

ReadOps == {"featured", "recent", "categories", "list", "me"}
CatalogOps == {"featured", "recent", "categories"}

\* C20 (as claimed): the five read operations leave the stored tables unchanged,
\* and a catalog read is answered 200 with the same result on an Anonymous and on
\* an Authenticated session: the same catalog read issued twice in a row over the
\* unchanged store, once Anonymous and once Authenticated, gets the same answer.
C20_ReadsPure ==
    [][ /\ req'.op \in ReadOps
           => /\ seed' = seed
              /\ user_newsletter' = user_newsletter
        /\ req'.op \in CatalogOps => resp'.status = 200
        /\ (/\ req'.op \in CatalogOps
            /\ req.op = req'.op
            /\ (req.cookie = None) # (req'.cookie = None))
           => resp' = resp ]_vars
====
